---- MODULE Spec2Model ----
(***************************************************************************)
(* Step-and-repeat imposition of a two-sided card (step_and_repeat_        *)
(* imposition.py): main() as a sequence of steps, with its helpers         *)
(* compute_grid, crop_page_all_sides and impose_side as operators.         *)
(*                                                                         *)
(* Lengths are exact integers in units of 1/25400 pt = 1/72000 mm, so      *)
(* that 1 mm, 1 pt, the 0.01 pt tolerance and every halving the program    *)
(* performs on the inputs below are whole numbers.  Floating-point         *)
(* rounding is not modelled: arithmetic is exact.                          *)
(***************************************************************************)
EXTENDS Integers, Sequences, FiniteSets, TLC

\* ----------------------------------------------------------------- units
\* one millimetre, in length units (MM_TO_PT = 72 / 25.4 pt)
MM_TO_PT == 72000

\* one point, in length units
PT == 25400

\* the 0.01 pt tolerance of the margin safety check
Epsilon == 254

\* duplex correction of the back side: -2.5 mm and 0.0 mm
BACK_OFFSET_X_MM == 0 - ((5 * MM_TO_PT) \div 2)

BACK_OFFSET_Y_MM == 0 * MM_TO_PT

\* (w_mm, h_mm) of the known paper formats
PAPER_SIZES_MM ==
  [A4 |-> <<210, 297>>, A3 |-> <<297, 420>>,
   SRA4 |-> <<225, 320>>, SRA3 |-> <<320, 450>>]

mm_to_points(w_mm, h_mm) == <<w_mm * MM_TO_PT, h_mm * MM_TO_PT>>

\* trim candidates in mm, in the order the loop visits them
trim_candidates_mm == <<0, 2>>

\* ---------------------------------------------------------------- inputs
\* largest multiple of 5 mm tried as a minimum margin
MaxMarginStep == 2

\* minimum margins (mm) a run may be given
MarginsMM == {5 * k : k \in 0..MaxMarginStep} \cup {100, 105, 150}

\* --paper values a run may be given ("B5" is not a known format)
PaperNames == {"A4", "A3", "SRA4", "SRA3", "B5"}

Box(llx, lly, w, h) ==
  [llx |-> llx, lly |-> lly, urx |-> llx + w, ury |-> lly + h]

BoxMM(llx, lly, w, h) ==
  Box(llx * MM_TO_PT, lly * MM_TO_PT, w * MM_TO_PT, h * MM_TO_PT)

\* page.mediabox.width / .height
Width(page) == page.urx - page.llx

Height(page) == page.ury - page.lly

\* mediaboxes of the first page of the input
FrontPages ==
  { BoxMM(0, 0, 90, 50), BoxMM(0, 0, 50, 101), BoxMM(0, 0, 100, 50),
    BoxMM(0, 0, 4, 200), BoxMM(0, 0, 250, 350), BoxMM(10, 20, 90, 50),
    Box(0, 0, 252 * PT, 144 * PT) }

\* mediaboxes of the second page, given the first: the same box, a page
\* 5 mm taller, or a 3 mm x 3 mm page
BackPages(f) ==
  { f, Box(f.llx, f.lly, Width(f), Height(f) + 5 * MM_TO_PT),
    BoxMM(0, 0, 3, 3) }

NoPage == Box(0, 0, 0, 0)

NoScenario ==
  [trim_mm |-> 0, rotate |-> FALSE, cols |-> 0, rows |-> 0,
   inner_mx |-> 0, inner_my |-> 0, card_w_eff |-> 0, card_h_eff |-> 0,
   capacity |-> 0]

\* --------------------------------------------------------- get_sheet_size
KnownFormat(fmt) == fmt \in DOMAIN PAPER_SIZES_MM

get_sheet_size(fmt) ==
  mm_to_points(PAPER_SIZES_MM[fmt][1], PAPER_SIZES_MM[fmt][2])

\* ----------------------------------------------------------- compute_grid
GridFail == [ok |-> FALSE, cols |-> 0, rows |-> 0, margin_x |-> 0, margin_y |-> 0]

compute_grid_rows_by_width(card_w, card_h, usable_w, usable_h) ==
  LET cols == usable_w \div card_w
      rows == usable_h \div card_w
  IN  IF cols < 1 \/ rows < 1
      THEN GridFail
      ELSE [ok |-> TRUE, cols |-> cols, rows |-> rows,
            margin_x |-> (usable_w - cols * card_w) \div 2,
            margin_y |-> (usable_h - rows * card_h) \div 2]

\* cols, rows and the inner margins, or the ValueError (ok = FALSE);
\* card_w and card_h are positive at every call
compute_grid(card_w, card_h, usable_w, usable_h) ==
  LET cols == usable_w \div card_w
      rows == usable_h \div card_h
  IN  IF cols < 1 \/ rows < 1
      THEN GridFail
      ELSE [ok |-> TRUE, cols |-> cols, rows |-> rows,
            margin_x |-> (usable_w - cols * card_w) \div 2,
            margin_y |-> (usable_h - rows * card_h) \div 2]

\* ---------------------------------------------------- crop_page_all_sides
crop_keeps_upper_right(page, trim_loss_mm) ==
  IF trim_loss_mm <= 0
  THEN [ok |-> TRUE, page |-> page]
  ELSE LET trim_pts == trim_loss_mm * MM_TO_PT
           new_llx == page.llx + trim_pts
           new_lly == page.lly + trim_pts
       IN  IF page.urx <= new_llx \/ page.ury <= new_lly
           THEN [ok |-> FALSE, page |-> page]
           ELSE [ok |-> TRUE,
                 page |-> [llx |-> new_llx, lly |-> new_lly,
                           urx |-> page.urx, ury |-> page.ury]]

\* the page after the crop, or the ValueError (ok = FALSE, page untouched)
crop_page_all_sides(page, trim_loss_mm) ==
  IF trim_loss_mm <= 0
  THEN [ok |-> TRUE, page |-> page]
  ELSE LET trim_pts == trim_loss_mm * MM_TO_PT
           new_llx == page.llx + trim_pts
           new_lly == page.lly + trim_pts
           new_urx == page.urx - trim_pts
           new_ury == page.ury - trim_pts
       IN  IF new_urx <= new_llx \/ new_ury <= new_lly
           THEN [ok |-> FALSE, page |-> page]
           ELSE [ok |-> TRUE,
                 page |-> [llx |-> new_llx, lly |-> new_lly,
                           urx |-> new_urx, ury |-> new_ury]]

\* ------------------------------------------------- main: usable area
UsableWidened(sheet_dim, margin_min_pts) == sheet_dim + 2 * margin_min_pts

\* usable_w / usable_h
Usable(sheet_dim, margin_min_pts) == sheet_dim - 2 * margin_min_pts

MarginTooLargeStrict(u_w, u_h) == u_w < 0 \/ u_h < 0

\* the guard of "Printmarge is te groot"
MarginTooLarge(u_w, u_h) == u_w <= 0 \/ u_h <= 0

\* ------------------------------------------------- main: enumeration
TrimmedDimOneEdge(orig, trim_mm) ==
  IF trim_mm > 0 THEN orig - trim_mm * MM_TO_PT ELSE orig

\* card_w / card_h of a trim candidate
TrimmedDim(orig, trim_mm) ==
  IF trim_mm > 0 THEN orig - 2 * (trim_mm * MM_TO_PT) ELSE orig

\* the scenarios one (trim_mm, rotate) pair appends: none or one
ScenarioFor(o_w, o_h, u_w, u_h, trim_mm, rotate) ==
  LET card_w == TrimmedDim(o_w, trim_mm)
      card_h == TrimmedDim(o_h, trim_mm)
      w_eff == IF rotate THEN card_h ELSE card_w
      h_eff == IF rotate THEN card_w ELSE card_h
  IN  IF card_w <= 0 \/ card_h <= 0
      THEN << >>
      ELSE LET g == compute_grid(w_eff, h_eff, u_w, u_h)
           IN  IF ~g.ok
               THEN << >>
               ELSE << [trim_mm |-> trim_mm, rotate |-> rotate,
                        cols |-> g.cols, rows |-> g.rows,
                        inner_mx |-> g.margin_x, inner_my |-> g.margin_y,
                        card_w_eff |-> w_eff, card_h_eff |-> h_eff,
                        capacity |-> g.cols * g.rows] >>

\* the list the two nested loops build
RECURSIVE EnumerateFrom(_, _, _, _, _)
EnumerateFrom(i, o_w, o_h, u_w, u_h) ==
  IF i > Len(trim_candidates_mm)
  THEN << >>
  ELSE ScenarioFor(o_w, o_h, u_w, u_h, trim_candidates_mm[i], FALSE)
       \o ScenarioFor(o_w, o_h, u_w, u_h, trim_candidates_mm[i], TRUE)
       \o EnumerateFrom(i + 1, o_w, o_h, u_w, u_h)

EnumerateScenarios(o_w, o_h, u_w, u_h) == EnumerateFrom(1, o_w, o_h, u_w, u_h)

\* ------------------------------------------------- main: selection
BoolInt(b) == IF b THEN 1 ELSE 0

SortKeyMoreTrim(s) == << s.capacity, s.trim_mm, BoolInt(~s.rotate) >>

\* key = (capacity, -trim_mm, not rotate)
SortKey(s) == << s.capacity, 0 - s.trim_mm, BoolInt(~s.rotate) >>

\* tuple comparison a < b
KeyLess(a, b) ==
  \/ a[1] < b[1]
  \/ a[1] = b[1] /\ a[2] < b[2]
  \/ a[1] = b[1] /\ a[2] = b[2] /\ a[3] < b[3]

\* x placed behind every element whose key is not smaller (stable)
RECURSIVE InsertDesc(_, _)
InsertDesc(x, sorted) ==
  IF sorted = << >>
  THEN << x >>
  ELSE IF KeyLess(SortKey(Head(sorted)), SortKey(x))
       THEN << x >> \o sorted
       ELSE << Head(sorted) >> \o InsertDesc(x, Tail(sorted))

\* list.sort(key = ..., reverse = True)
RECURSIVE SortInto(_, _)
SortInto(todo, sorted) ==
  IF todo = << >> THEN sorted
  ELSE SortInto(Tail(todo), InsertDesc(Head(todo), sorted))

SortScenarios(list) == SortInto(list, << >>)

\* ----------------------------------------------------------- impose_side
Cells(cols, rows) == (0..(cols - 1)) \X (0..(rows - 1))

\* the Transformation of one cell: rotation in degrees, then translation
CellTransform(base_page, m_x, m_y, w_eff, h_eff, rotate, col, row) ==
  LET card_h_raw == Height(base_page)
      x == m_x + col * w_eff
      y == m_y + row * h_eff
  IN  IF rotate
      THEN [rot |-> 90, tx |-> x + card_h_raw, ty |-> y]
      ELSE [rot |-> 0, tx |-> x, ty |-> y]

\* the new sheet: its size, the page merged into it and where
impose_side(base_page, s_w, s_h, cols, rows, m_x, m_y, w_eff, h_eff, rotate) ==
  [width |-> s_w, height |-> s_h, src |-> base_page,
   placed |-> [c \in Cells(cols, rows) |->
                 CellTransform(base_page, m_x, m_y, w_eff, h_eff, rotate,
                               c[1], c[2])]]

\* a point under a Transformation: rotate(90) maps (px, py) to (-py, px)
ApplyTransform(t, px, py) ==
  IF t.rot = 90 THEN << t.tx - py, t.ty + px >> ELSE << t.tx + px, t.ty + py >>

Min(a, b) == IF a <= b THEN a ELSE b

\* lower-left corner of the image of a page's box under a Transformation
ImageLowerLeft(t, page) ==
  LET p == ApplyTransform(t, page.llx, page.lly)
      q == ApplyTransform(t, page.urx, page.ury)
  IN  << Min(p[1], q[1]), Min(p[2], q[2]) >>

\* ------------------------------------------------- main: composition
\* margin_x / margin_y on the whole sheet
FinalMargin(sheet_dim, n, eff) == (sheet_dim - n * eff) \div 2

\* the guard of "Interne fout"
MarginBelowMinimum(m_x, m_y, min_x, min_y) ==
  m_x < min_x - Epsilon \/ m_y < min_y - Epsilon

\* ------------------------------------------------------------------ state
VARIABLES
  pc,                 \* the step main() is about to take; "failed"; "done"
  err,                \* the exception that ended the run, or "none"
  failedAt,           \* the step that raised it, or "none"
  front_page,         \* mediabox of reader.pages[0]
  back_page,          \* mediabox of reader.pages[1]
  orig_w, orig_h,     \* card size before any trim
  sheet_w, sheet_h,
  margin_x_min_pts, margin_y_min_pts,
  usable_w, usable_h,
  scenarios,          \* the list of scenario records
  best,               \* scenarios[0] after the sort
  card_w_eff, card_h_eff,
  margin_x, margin_y, \* final margins on the whole sheet
  writer,             \* TRUE once PdfWriter() exists
  out_pages,          \* the pages added to the writer, in order
  written             \* TRUE once the output file has been opened and written

vars ==
  << pc, err, failedAt, front_page, back_page, orig_w, orig_h, sheet_w,
     sheet_h, margin_x_min_pts, margin_y_min_pts, usable_w, usable_h,
     scenarios, best, card_w_eff, card_h_eff, margin_x, margin_y, writer,
     out_pages, written >>

pagesVars == << front_page, back_page, orig_w, orig_h >>

sheetVars == << sheet_w, sheet_h >>

marginVars == << margin_x_min_pts, margin_y_min_pts, usable_w, usable_h >>

planVars == << card_w_eff, card_h_eff, margin_x, margin_y >>

outVars == << writer, out_pages, written >>

Init ==
  /\ pc = "read"
  /\ err = "none"
  /\ failedAt = "none"
  /\ front_page = NoPage
  /\ back_page = NoPage
  /\ orig_w = 0
  /\ orig_h = 0
  /\ sheet_w = 0
  /\ sheet_h = 0
  /\ margin_x_min_pts = 0
  /\ margin_y_min_pts = 0
  /\ usable_w = 0
  /\ usable_h = 0
  /\ scenarios = << >>
  /\ best = NoScenario
  /\ card_w_eff = 0
  /\ card_h_eff = 0
  /\ margin_x = 0
  /\ margin_y = 0
  /\ writer = FALSE
  /\ out_pages = << >>
  /\ written = FALSE

\* raise e at the current step
Raise(e) ==
  /\ err' = e
  /\ failedAt' = pc
  /\ pc' = "failed"

Goto(step) ==
  /\ pc' = step
  /\ UNCHANGED << err, failedAt >>

\* ---------------------------------------------------------------- actions
ReadInputWriterFirst ==
  /\ pc = "read"
  /\ \E n \in {1, 2} : \E f \in FrontPages : \E b \in BackPages(f) :
       IF n < 2
       THEN /\ Raise("TooFewPages")
            /\ UNCHANGED pagesVars
       ELSE /\ Goto("format")
            /\ front_page' = f
            /\ back_page' = b
            /\ orig_w' = Width(f)
            /\ orig_h' = Height(f)
  /\ writer' = TRUE
  /\ UNCHANGED << sheetVars, marginVars, scenarios, best, planVars,
                  out_pages, written >>

\* reader = PdfReader(...); the two pages and the original card size
ReadInput ==
  /\ pc = "read"
  /\ \E n \in {1, 2} : \E f \in FrontPages : \E b \in BackPages(f) :
       IF n < 2
       THEN /\ Raise("TooFewPages")
            /\ UNCHANGED pagesVars
       ELSE /\ Goto("format")
            /\ front_page' = f
            /\ back_page' = b
            /\ orig_w' = Width(f)
            /\ orig_h' = Height(f)
  /\ UNCHANGED << sheetVars, marginVars, scenarios, best, planVars, outVars >>

\* sheet_w, sheet_h = get_sheet_size(args.paper)
ResolveFormat ==
  /\ pc = "format"
  /\ \E fmt \in PaperNames :
       IF ~KnownFormat(fmt)
       THEN /\ Raise("UnknownFormat")
            /\ UNCHANGED sheetVars
       ELSE /\ Goto("margins")
            /\ sheet_w' = get_sheet_size(fmt)[1]
            /\ sheet_h' = get_sheet_size(fmt)[2]
  /\ UNCHANGED << pagesVars, marginVars, scenarios, best, planVars, outVars >>

\* minimum margins in points and the usable area
ComputeUsable ==
  /\ pc = "margins"
  /\ \E margin_x_mm \in MarginsMM : \E margin_y_mm \in MarginsMM :
       LET min_x == margin_x_mm * MM_TO_PT
           min_y == margin_y_mm * MM_TO_PT
           u_w == Usable(sheet_w, min_x)
           u_h == Usable(sheet_h, min_y)
       IN  /\ margin_x_min_pts' = min_x
           /\ margin_y_min_pts' = min_y
           /\ usable_w' = u_w
           /\ usable_h' = u_h
           /\ IF MarginTooLarge(u_w, u_h)
              THEN Raise("MarginTooLarge")
              ELSE Goto("enumerate")
  /\ UNCHANGED << pagesVars, sheetVars, scenarios, best, planVars, outVars >>

\* the (trim_mm, rotate) loops and the empty-list check
Enumerate ==
  /\ pc = "enumerate"
  /\ scenarios' = EnumerateScenarios(orig_w, orig_h, usable_w, usable_h)
  /\ IF scenarios' = << >>
     THEN Raise("NoViableScenario")
     ELSE Goto("select")
  /\ UNCHANGED << pagesVars, sheetVars, marginVars, best, planVars, outVars >>

\* scenarios.sort(...); best = scenarios[0]
Select ==
  /\ pc = "select"
  /\ scenarios' = SortScenarios(scenarios)
  /\ best' = Head(scenarios')
  /\ Goto("crop_front")
  /\ UNCHANGED << pagesVars, sheetVars, marginVars, planVars, outVars >>

\* crop_page_all_sides(front_page, best["trim_mm"]) when trim_mm > 0
CropFront ==
  /\ pc = "crop_front"
  /\ IF best.trim_mm > 0
     THEN LET r == crop_page_all_sides(front_page, best.trim_mm)
          IN  /\ front_page' = r.page
              /\ IF r.ok THEN Goto("crop_back") ELSE Raise("OverTrimmed")
     ELSE /\ front_page' = front_page
          /\ Goto("crop_back")
  /\ UNCHANGED << back_page, orig_w, orig_h, sheetVars, marginVars,
                  scenarios, best, planVars, outVars >>

\* crop_page_all_sides(back_page, best["trim_mm"]) when trim_mm > 0
CropBack ==
  /\ pc = "crop_back"
  /\ IF best.trim_mm > 0
     THEN LET r == crop_page_all_sides(back_page, best.trim_mm)
          IN  /\ back_page' = r.page
              /\ IF r.ok THEN Goto("compose") ELSE Raise("OverTrimmed")
     ELSE /\ back_page' = back_page
          /\ Goto("compose")
  /\ UNCHANGED << front_page, orig_w, orig_h, sheetVars, marginVars,
                  scenarios, best, planVars, outVars >>

\* final card size, effective cell size, margins on the whole sheet, check
Compose ==
  /\ pc = "compose"
  /\ LET final_card_w == Width(front_page)
         final_card_h == Height(front_page)
         w_eff == IF best.rotate THEN final_card_h ELSE final_card_w
         h_eff == IF best.rotate THEN final_card_w ELSE final_card_h
         m_x == FinalMargin(sheet_w, best.cols, w_eff)
         m_y == FinalMargin(sheet_h, best.rows, h_eff)
     IN  /\ card_w_eff' = w_eff
         /\ card_h_eff' = h_eff
         /\ margin_x' = m_x
         /\ margin_y' = m_y
         /\ IF MarginBelowMinimum(m_x, m_y, margin_x_min_pts, margin_y_min_pts)
            THEN Raise("InvariantViolation")
            ELSE Goto("writer")
  /\ UNCHANGED << pagesVars, sheetVars, marginVars, scenarios, best, outVars >>

\* writer = PdfWriter()
CreateWriter ==
  /\ pc = "writer"
  /\ writer' = TRUE
  /\ Goto("impose_front")
  /\ UNCHANGED << pagesVars, sheetVars, marginVars, scenarios, best,
                  planVars, out_pages, written >>

\* impose_side(writer, front_page, ...)
ImposeFront ==
  /\ pc = "impose_front"
  /\ out_pages' =
       Append(out_pages,
              impose_side(front_page, sheet_w, sheet_h, best.cols, best.rows,
                          margin_x, margin_y, card_w_eff, card_h_eff,
                          best.rotate))
  /\ Goto("impose_back")
  /\ UNCHANGED << pagesVars, sheetVars, marginVars, scenarios, best,
                  planVars, writer, written >>

ImposeBackOffsetOnY ==
  /\ pc = "impose_back"
  /\ out_pages' =
       Append(out_pages,
              impose_side(back_page, sheet_w, sheet_h, best.cols, best.rows,
                          margin_x + BACK_OFFSET_Y_MM,
                          margin_y + BACK_OFFSET_X_MM,
                          card_w_eff, card_h_eff, best.rotate))
  /\ Goto("write")
  /\ UNCHANGED << pagesVars, sheetVars, marginVars, scenarios, best,
                  planVars, writer, written >>

\* impose_side(writer, back_page, ...) with the duplex offset
ImposeBack ==
  /\ pc = "impose_back"
  /\ out_pages' =
       Append(out_pages,
              impose_side(back_page, sheet_w, sheet_h, best.cols, best.rows,
                          margin_x + BACK_OFFSET_X_MM,
                          margin_y + BACK_OFFSET_Y_MM,
                          card_w_eff, card_h_eff, best.rotate))
  /\ Goto("write")
  /\ UNCHANGED << pagesVars, sheetVars, marginVars, scenarios, best,
                  planVars, writer, written >>

\* with open(output_pdf, "wb") as f_out: writer.write(f_out)
WriteOutput ==
  /\ pc = "write"
  /\ written' = TRUE
  /\ Goto("done")
  /\ UNCHANGED << pagesVars, sheetVars, marginVars, scenarios, best,
                  planVars, writer, out_pages >>

Next ==
  \/ ReadInput
  \/ ResolveFormat
  \/ ComputeUsable
  \/ Enumerate
  \/ Select
  \/ CropFront
  \/ CropBack
  \/ Compose
  \/ CreateWriter
  \/ ImposeFront
  \/ ImposeBack
  \/ WriteOutput

Spec == Init /\ [][Next]_vars

\* ------------------------------------------------------ positions of a run
SelectedSteps ==
  {"crop_front", "crop_back", "compose", "writer", "impose_front",
   "impose_back", "write", "done"}

ComposedSteps == {"writer", "impose_front", "impose_back", "write", "done"}

\* the step the run has reached, or the step at which it failed
Position == IF pc = "failed" THEN failedAt ELSE pc

\* the enumeration loop has run to its end
Enumerated ==
  \/ pc \in {"select"} \cup SelectedSteps
  \/ pc = "failed" /\ failedAt \in {"enumerate"} \cup SelectedSteps

\* best has been chosen
HasSelected == Position \in SelectedSteps

\* the final margins have been computed
Composed ==
  \/ pc \in ComposedSteps
  \/ pc = "failed" /\ failedAt = "compose"

Range(seq) == {seq[i] : i \in 1..Len(seq)}

\* every reordering of a list
Reorderings(seq) ==
  LET n == Len(seq)
      perms == {f \in [1..n -> 1..n] : \A i, j \in 1..n : f[i] = f[j] => i = j}
  IN  {[i \in 1..n |-> seq[f[i]]] : f \in perms}

\* ------------------------------------------------------------------ claims

\* C1: the selected scenario has the maximum capacity of the enumerated
\* scenarios, among those the smallest trim_mm, among those rotate = FALSE
\* when such a scenario exists; and sorting any reordering of the list
\* selects the same scenario.
C1_SelectionOrder ==
  HasSelected =>
    /\ Range(scenarios) =
         Range(EnumerateScenarios(orig_w, orig_h, usable_w, usable_h))
    /\ best \in Range(scenarios)
    /\ \A s \in Range(scenarios) :
         /\ s.capacity <= best.capacity
         /\ s.capacity = best.capacity => s.trim_mm >= best.trim_mm
         /\ (s.capacity = best.capacity /\ s.trim_mm = best.trim_mm
             /\ ~s.rotate) => ~best.rotate
    /\ \A l \in Reorderings(scenarios) : Head(SortScenarios(l)) = best

\* all four scenarios are viable and both tie-breaks decide: another trim
\* and another rotation reach the capacity of the selected scenario
C1_Witness ==
  /\ HasSelected
  /\ Len(scenarios) = 4
  /\ \E s \in Range(scenarios) :
       s.capacity = best.capacity /\ s.trim_mm > best.trim_mm
  /\ \E s \in Range(scenarios) :
       s.capacity = best.capacity /\ s.trim_mm = best.trim_mm
       /\ s.rotate /\ ~best.rotate

\* C2: once the final margins are computed they centre the grid on the
\* whole sheet, margin = (sheet - n * effective card size) / 2 exactly, with
\* the effective size read from the (possibly cropped) front page; both are
\* at least the minimum margin less 0.01 pt, and the "Interne fout" error
\* is never raised.
C2_FinalMargins ==
  /\ err # "InvariantViolation"
  /\ Composed =>
       /\ card_w_eff =
            (IF best.rotate THEN Height(front_page) ELSE Width(front_page))
       /\ card_h_eff =
            (IF best.rotate THEN Width(front_page) ELSE Height(front_page))
       /\ 2 * margin_x = sheet_w - best.cols * card_w_eff
       /\ 2 * margin_y = sheet_h - best.rows * card_h_eff
       /\ margin_x >= margin_x_min_pts - Epsilon
       /\ margin_y >= margin_y_min_pts - Epsilon

\* the margins of a trimmed, rotated scenario have passed the check, one of
\* them sitting exactly on its minimum
C2_Witness ==
  /\ pc = "writer"
  /\ best.trim_mm = 2
  /\ best.rotate
  /\ margin_x = margin_x_min_pts \/ margin_y = margin_y_min_pts

\* C3: the enumeration yields at most 4 scenarios, at most one per
\* (trim_mm, rotate) pair with trim_mm in {0, 2}; each has cols >= 1,
\* rows >= 1, cols = floor(usable_w / card_w_eff), rows = floor(usable_h /
\* card_h_eff), capacity = cols * rows, and its effective size is the trimmed
\* card size (positive in both axes) with the axes swapped iff rotate.
C3_Enumeration ==
  Enumerated =>
    /\ Len(scenarios) <= 4
    /\ \A i, j \in 1..Len(scenarios) :
         (scenarios[i].trim_mm = scenarios[j].trim_mm
          /\ scenarios[i].rotate = scenarios[j].rotate) => i = j
    /\ \A s \in Range(scenarios) :
         LET tw == orig_w - 2 * s.trim_mm * MM_TO_PT
             th == orig_h - 2 * s.trim_mm * MM_TO_PT
         IN  /\ s.trim_mm \in {0, 2}
             /\ tw > 0 /\ th > 0
             /\ s.card_w_eff = (IF s.rotate THEN th ELSE tw)
             /\ s.card_h_eff = (IF s.rotate THEN tw ELSE th)
             /\ s.cols >= 1 /\ s.rows >= 1
             /\ s.cols * s.card_w_eff <= usable_w
             /\ (s.cols + 1) * s.card_w_eff > usable_w
             /\ s.rows * s.card_h_eff <= usable_h
             /\ (s.rows + 1) * s.card_h_eff > usable_h
             /\ s.capacity = s.cols * s.rows

\* the 2 mm trim leaves no width, so only the untrimmed card is enumerated,
\* in both rotations
C3_Witness ==
  /\ pc = "select"
  /\ orig_w - 4 * MM_TO_PT <= 0
  /\ Len(scenarios) = 2

\* the cell origin (x, y) a Transformation of impose_side was built from
CellOrigin(t, page) ==
  IF t.rot = 90 THEN << t.tx - Height(page), t.ty >> ELSE << t.tx, t.ty >>

BothImposed == pc \in {"write", "done"}

\* C4 as stated: for every cell the back translation is the front
\* translation plus exactly the duplex vector, with the same rotation and
\* the same grid.
C4_BackIsFrontPlusOffset ==
  BothImposed =>
    LET f == out_pages[1]
        b == out_pages[2]
    IN  /\ DOMAIN f.placed = Cells(best.cols, best.rows)
        /\ DOMAIN b.placed = DOMAIN f.placed
        /\ \A c \in DOMAIN f.placed :
             /\ b.placed[c].rot = f.placed[c].rot
             /\ b.placed[c].tx = f.placed[c].tx + BACK_OFFSET_X_MM
             /\ b.placed[c].ty = f.placed[c].ty + BACK_OFFSET_Y_MM

\* C4 (amended): for every cell the back translation is the front
\* translation plus the duplex vector plus, when rotate, the difference of
\* the two pages' heights on x; so it is exactly the duplex vector when
\* rotate = FALSE or the back page is as high as the front page.  Rotation
\* flag, grid and cell stride are the same on both sides.
C4_BackOffsetAmended ==
  BothImposed =>
    LET f == out_pages[1]
        b == out_pages[2]
        dh == IF best.rotate THEN Height(back_page) - Height(front_page) ELSE 0
    IN  /\ DOMAIN f.placed = Cells(best.cols, best.rows)
        /\ DOMAIN b.placed = DOMAIN f.placed
        /\ \A c \in DOMAIN f.placed :
             /\ b.placed[c].rot = f.placed[c].rot
             /\ f.placed[c].rot = (IF best.rotate THEN 90 ELSE 0)
             /\ b.placed[c].tx = f.placed[c].tx + BACK_OFFSET_X_MM + dh
             /\ b.placed[c].ty = f.placed[c].ty + BACK_OFFSET_Y_MM
             /\ CellOrigin(f.placed[c], front_page) =
                  << margin_x + c[1] * card_w_eff, margin_y + c[2] * card_h_eff >>
             /\ CellOrigin(b.placed[c], back_page) =
                  << margin_x + BACK_OFFSET_X_MM + c[1] * card_w_eff,
                     margin_y + BACK_OFFSET_Y_MM + c[2] * card_h_eff >>

\* both sides of a rotated grid of several cells are placed, the two pages
\* being equally high
C4_Witness ==
  /\ BothImposed
  /\ best.rotate
  /\ best.cols > 1 /\ best.rows > 1
  /\ Height(back_page) = Height(front_page)

\* C5 as stated: with rotate = TRUE the emitted transform maps the source
\* page's box, as it stands after the crop, to a box whose lower-left corner
\* is the cell origin, for every cell of the front sheet.
C5_RotatedBoxAtCellOrigin ==
  (Len(out_pages) >= 1 /\ best.rotate) =>
    \A c \in DOMAIN out_pages[1].placed :
      ImageLowerLeft(out_pages[1].placed[c], out_pages[1].src) =
        << margin_x + c[1] * card_w_eff, margin_y + c[2] * card_h_eff >>

\* C10 as stated: every cell rectangle of the back side, at its origin after
\* the duplex offset, keeps the minimum margins from the four sheet edges.
C10_BackCellsKeepMargins ==
  BothImposed =>
    \A c \in DOMAIN out_pages[2].placed :
      LET o == CellOrigin(out_pages[2].placed[c], out_pages[2].src)
      IN  /\ o[1] >= margin_x_min_pts
          /\ o[1] + card_w_eff <= sheet_w - margin_x_min_pts
          /\ o[2] >= margin_y_min_pts
          /\ o[2] + card_h_eff <= sheet_h - margin_y_min_pts

\* ------------------------------------------------------ error classification
\* usable_w and usable_h have been computed
UsableComputed ==
  \/ pc = "failed" /\ failedAt = "margins"
  \/ pc = "enumerate"
  \/ Enumerated

\* the (trim_mm, rotate) combination leaves a card and fits it at least once
Fits(trim_mm, rotate) ==
  LET tw == orig_w - 2 * trim_mm * MM_TO_PT
      th == orig_h - 2 * trim_mm * MM_TO_PT
      w == IF rotate THEN th ELSE tw
      h == IF rotate THEN tw ELSE th
  IN  tw > 0 /\ th > 0 /\ w <= usable_w /\ h <= usable_h

AnyFits == \E trim_mm \in {0, 2} : \E rotate \in BOOLEAN : Fits(trim_mm, rotate)

\* C6: the margin-too-large error is raised exactly when a usable dimension
\* is <= 0, before any scenario is enumerated; the no-viable-scenario error
\* exactly when both are positive and no (trim, rotate) combination fits a
\* card; otherwise neither is raised and a scenario is selected.
C6_ErrorClassification ==
  /\ err = "MarginTooLarge" <=>
       (UsableComputed /\ (usable_w <= 0 \/ usable_h <= 0))
  /\ err = "MarginTooLarge" => (failedAt = "margins" /\ scenarios = << >>)
  /\ err = "NoViableScenario" <=>
       (Enumerated /\ usable_w > 0 /\ usable_h > 0 /\ ~AnyFits)
  /\ (Enumerated /\ AnyFits) =>
       /\ err \notin {"MarginTooLarge", "NoViableScenario"}
       /\ Position \in {"select"} \cup SelectedSteps
       /\ scenarios # << >>
  /\ HasSelected => (best \in Range(scenarios) /\ best.capacity >= 1)

\* both usable dimensions are positive and no combination fits
C6_Witness ==
  /\ err = "NoViableScenario"
  /\ usable_w > 0 /\ usable_h > 0

\* C7: each of the six failures is raised before the writer exists, before
\* any output page is allocated and before the output file is opened; a run
\* that has a writer or an output page has passed every validation.
C7_FailuresBeforeOutput ==
  /\ err \in {"none", "TooFewPages", "UnknownFormat", "MarginTooLarge",
              "NoViableScenario", "OverTrimmed", "InvariantViolation"}
  /\ err # "none" =>
       (pc = "failed" /\ ~writer /\ out_pages = << >> /\ ~written)
  /\ (writer \/ out_pages # << >> \/ written) =>
       (err = "none"
        /\ pc \in {"impose_front", "impose_back", "write", "done"})
  /\ written => Len(out_pages) = 2

\* the latest failure: the back page cannot be cropped after the front page
\* has been
C7_Witness ==
  /\ pc = "failed"
  /\ err = "OverTrimmed"
  /\ Width(front_page) < orig_w

\* ------------------------------------------------------ capacity of a run
\* the capacity main() selects for a card, a sheet and minimum margins; 0
\* when the run ends in the margin-too-large or no-viable-scenario error
SelectedCapacity(o_w, o_h, s_w, s_h, min_x, min_y) ==
  LET u_w == Usable(s_w, min_x)
      u_h == Usable(s_h, min_y)
  IN  IF MarginTooLarge(u_w, u_h)
      THEN 0
      ELSE LET l == EnumerateScenarios(o_w, o_h, u_w, u_h)
           IN  IF l = << >> THEN 0 ELSE Head(SortScenarios(l)).capacity

MarginsPts == {m * MM_TO_PT : m \in MarginsMM}

\* C8: for the card and sheet of a run that selects a scenario, a run with
\* margins at least as large on both axes that also selects a scenario
\* selects a capacity no larger, and one with margins no larger selects a
\* capacity no smaller.
C8_CapacityMonotone ==
  HasSelected =>
    \A min_x \in MarginsPts : \A min_y \in MarginsPts :
      LET other == SelectedCapacity(orig_w, orig_h, sheet_w, sheet_h,
                                    min_x, min_y)
      IN  other > 0 =>
            /\ (min_x >= margin_x_min_pts /\ min_y >= margin_y_min_pts)
                 => other <= best.capacity
            /\ (min_x <= margin_x_min_pts /\ min_y <= margin_y_min_pts)
                 => other >= best.capacity

\* a larger margin on one axis alone costs capacity
C8_Witness ==
  /\ HasSelected
  /\ \E min_x \in MarginsPts :
       LET other == SelectedCapacity(orig_w, orig_h, sheet_w, sheet_h,
                                     min_x, margin_y_min_pts)
       IN  min_x > margin_x_min_pts /\ other > 0 /\ other < best.capacity

\* ------------------------------------------------------------ over-trimming
\* C9 as stated: no run raises the over-trimmed error, whatever the
\* dimensions of the back page.
C9_NeverOverTrimmed == err # "OverTrimmed"

\* C9 (amended): cropping the front page by the selected trim always
\* succeeds and leaves the size the enumeration computed; cropping the back
\* page succeeds whenever its width and height both exceed twice the trim
\* (so whenever it has the size of the front page), and raises the
\* over-trimmed error, after the front page has been cropped, exactly when
\* its width or height is at most twice the trim.
C9_OverTrimmedOnlyByBackPage ==
  LET trim_pts == best.trim_mm * MM_TO_PT
  IN  /\ err = "OverTrimmed" =>
            /\ failedAt = "crop_back"
            /\ best.trim_mm > 0
            /\ Width(back_page) <= 2 * trim_pts
                 \/ Height(back_page) <= 2 * trim_pts
      /\ (Position \in SelectedSteps \ {"crop_front"}) =>
            /\ Width(front_page) = orig_w - 2 * trim_pts
            /\ Height(front_page) = orig_h - 2 * trim_pts
            /\ Width(front_page) > 0 /\ Height(front_page) > 0
      /\ (pc = "crop_back" /\ best.trim_mm > 0
          /\ Width(back_page) > 2 * trim_pts
          /\ Height(back_page) > 2 * trim_pts) =>
            crop_page_all_sides(back_page, best.trim_mm).ok
      /\ (pc \in {"compose"} \cup ComposedSteps) =>
            (Width(back_page) > 0 /\ Height(back_page) > 0)

\* a 2 mm trim has been applied to a front page and to a back page of
\* another size
C9_Witness ==
  /\ pc = "compose"
  /\ best.trim_mm = 2
  /\ Width(front_page) = orig_w - 4 * MM_TO_PT
  /\ Height(back_page) # Height(front_page)

====
